---- MODULE Spec2Model ----
(***************************************************************************)
(* PontemWalletAdapter (PontemWallet.ts): the adapter's state, its async   *)
(* operations cut at every `await`, and the injected provider as a         *)
(* nondeterministic collaborator.  One step of an action is one run of     *)
(* JavaScript from a call (or a promise resolution) to the next `await`    *)
(* or to the return of the call.                                           *)
(***************************************************************************)
EXTENDS Naturals, FiniteSets, Sequences, Bags, TLC

\* How many adapter calls may be in flight (suspended at an await) at once.
NumTasks == 2

\* Runtime environments the constructor distinguishes (lines 84-87, 100):
\*   browser    : window and document defined
\*   nodocument : window defined, document undefined
\*   nowindow   : window undefined
Envs == {"browser", "nodocument", "nowindow"}

HasWindow(e) == e # "nowindow"

\* WalletReadyState of BaseAdapter, as used by this file.
Unsupported == "Unsupported"
NotDetected == "NotDetected"
Loadable == "Loadable"
Installed == "Installed"

\* Values the provider may answer with.  "" is the empty (falsy) string.
Addresses == {"", "0xA", "0xC"}
PublicKeys == {"", "0xB"}

Null == "null"

\* Errors a call may end with are named by their class; a provider's own
\* errors are
\*   ProviderError       : a plain Error thrown by a provider method
\*   ProviderNestedError : a provider error object carrying error.message
\* and NoResponseError / SignMessageFailedError are the plain Errors of
\* lines 220 and 239.
None == "none"

VARIABLES
    env,            \* the runtime environment of the adapter
    windowPontem,   \* whether window.pontem is defined
    _provider,      \* this._provider: TRUE when it holds a provider handle
    _readyState,    \* this._readyState
    _connecting,    \* this._connecting
    _wallet,        \* this._wallet: NullWallet or a PontemAccount record
    polling,        \* whether the detection callback is still scheduled
    readyStateChanges, \* number of `readyStateChange` events emitted
    session,        \* the provider's own session: TRUE when it is connected
    tasks,          \* the calls in flight: a bag of call records
    done,           \* the record of the call that returned most recently
    last            \* the step that led to this state: which call ran

vars == <<env, windowPontem, _provider, _readyState, _connecting, _wallet,
          polling, readyStateChanges, session, tasks, done, last>>

adapterVars == <<env, windowPontem, _provider, _readyState, polling,
                 readyStateChanges>>

\* A call slot before any call.
IdleTask == [op |-> None, pc |-> "idle", calls |-> {}, events |-> <<>>,
             failure |-> None, raised |-> None, shortCircuit |-> FALSE,
             provider |-> "undefined", walletAccount |-> Null,
             publicKey |-> Null]

\* this._wallet === null (line 104): the absent ConnectionRecord.
NullWallet == [present |-> FALSE, address |-> Null, publicKey |-> Null,
               authKey |-> Null, isConnected |-> FALSE]

\* get connected (lines 130-132): !!this._wallet?.isConnected
ConnectedOf(w) == w.present /\ w.isConnected

connected == ConnectedOf(_wallet)

\* get connecting (lines 126-128)
connecting == _connecting

\* get publicAccount (lines 118-124): each field `|| null`
OrNull(v) == IF v = "" \/ v = Null THEN Null ELSE v

publicAccount ==
    [publicKey |-> IF _wallet.present THEN OrNull(_wallet.publicKey) ELSE Null,
     address   |-> IF _wallet.present THEN OrNull(_wallet.address) ELSE Null,
     authKey   |-> IF _wallet.present THEN OrNull(_wallet.authKey) ELSE Null]

\* Mutant of NewWallet: the stored record is not flagged connected.
NewWalletNotFlagged(walletAccount, publicKey) ==
    [present |-> TRUE, address |-> walletAccount, publicKey |-> publicKey,
     authKey |-> Null, isConnected |-> FALSE]

\* The record connect() stores (lines 164-168); authKey is not set.
NewWallet(walletAccount, publicKey) ==
    [present |-> TRUE, address |-> walletAccount, publicKey |-> publicKey,
     authKey |-> Null, isConnected |-> TRUE]

\* `this._provider || window.pontem` (lines 150, 181, 198, 215, 232):
\* "ReferenceError" when window.pontem is evaluated with no window,
\* otherwise whether the expression yields a provider.
ProviderExpr ==
    IF _provider THEN "provider"
    ELSE IF ~HasWindow(env) THEN "ReferenceError"
    ELSE IF windowPontem THEN "provider" ELSE "undefined"

\* provider?.m(): the method is invoked only when the provider is defined.
Invoke(p, m) == IF p = "provider" THEN {m} ELSE {}

Truthy(v) == v # "" /\ v # Null /\ v # "undefined"

\* An emitted event: this.emit(type, payload).
Event(type, payload) == [type |-> type, payload |-> payload]

\* A new call may start while fewer than NumTasks calls are in flight.
Callable == BagCardinality(tasks) < NumTasks

\* The calls in flight.
InFlight == BagToSet(tasks)

\* No call ran in the step (a step of the environment).
NoStep == [op |-> None, called |-> FALSE, returned |-> FALSE, at |-> "idle",
           answer |-> None]

\* The step ran one call and left it as the record nt.  `c` is the call's
\* record before the step, IdleTask (and `called`) when the step is the
\* call itself; `r` is the provider's answer the step resumed with.  A call
\* that has returned leaves its record in `done`.
Run(c, called, r, nt) ==
    /\ tasks' = (IF called THEN tasks ELSE tasks (-) SetToBag({c}))
                 (+) (IF nt.pc = "done" THEN EmptyBag ELSE SetToBag({nt}))
    /\ done' = IF nt.pc = "done" THEN nt ELSE done
    /\ last' = [op |-> nt.op, called |-> called, returned |-> nt.pc = "done",
                at |-> c.pc, answer |-> r]

\* Mutant of StartsPolling: polling starts whatever the ready state is.
StartsPollingAlways(e, rs) == HasWindow(e)

\* Whether the constructor starts the detection polling (line 106).
StartsPolling(e, rs) == HasWindow(e) /\ rs # Unsupported

Init ==
    /\ env \in Envs
    /\ windowPontem \in (IF HasWindow(env) THEN BOOLEAN ELSE {FALSE})
    /\ _provider = windowPontem
    /\ _readyState = IF env = "browser" THEN NotDetected ELSE Unsupported
    /\ _connecting = FALSE
    /\ _wallet = NullWallet
    /\ polling = StartsPolling(env, _readyState)
    /\ readyStateChanges = 0
    /\ session \in (IF windowPontem THEN BOOLEAN ELSE {FALSE})
    /\ tasks = EmptyBag
    /\ done = IdleTask
    /\ last = NoStep

\* The wallet extension injects window.pontem after the page has loaded.
Inject ==
    /\ HasWindow(env)
    /\ ~windowPontem
    /\ windowPontem' = TRUE
    /\ session' \in BOOLEAN
    /\ last' = NoStep
    /\ UNCHANGED <<env, _provider, _readyState, _connecting, _wallet, polling,
                   readyStateChanges, tasks, done>>

\* The detection callback (lines 107-114), run by
\* scopePollingDetectionStrategy until it returns true.
Detect ==
    /\ polling
    /\ windowPontem
    /\ _readyState' = Installed
    /\ readyStateChanges' = readyStateChanges + 1
    /\ polling' = FALSE
    /\ last' = NoStep
    /\ UNCHANGED <<env, windowPontem, _provider, _connecting, _wallet, session,
                   tasks, done>>

(***************************************************************************)
(* connect() (lines 138-177)                                               *)
(***************************************************************************)

\* catch (lines 171-173): emit the generic rejection error, rethrow.
ConnectCatch(tk, err) ==
    [tk EXCEPT !.pc = "done",
               !.events = Append(@, Event("error", "UserRejectedConnection")),
               !.failure = err,
               !.raised = err]

\* Mutant of ConnectFinally: the flag is left as it is.
ConnectFinallyKeepsFlag == _connecting

\* finally (lines 174-176): the value written to this._connecting when the
\* call leaves the try block, on every path.
ConnectFinally == FALSE

\* What the provider's isConnected() may answer.
IsConnectedOutcomes(p) ==
    IF p = "provider"
    THEN {IF session THEN "true" ELSE "false", "throw"}
    ELSE {"undefined"}

\* What the provider's disconnect() may answer.
DisconnectOutcomes(p) ==
    IF p = "provider" THEN {"ok", "throw"} ELSE {"undefined"}

\* What the provider's connect() may answer: a response object, nothing,
\* or a thrown error.
ConnectOutcomes(p) ==
    IF p = "provider" THEN {"response", "nothing", "throw"} ELSE {"undefined"}

AccountOutcomes(p) ==
    IF p = "provider" THEN Addresses \cup {"throw"} ELSE {"undefined"}

PublicKeyOutcomes(p) ==
    IF p = "provider" THEN PublicKeys \cup {"throw"} ELSE {"undefined"}

\* Mutant of ConnectGuard: the guard forgets the in-flight flag.
ConnectGuardIgnoresConnecting == connected

\* The entry guard of connect() (line 140).
ConnectGuard == connected \/ connecting

\* Mutant of IsReady: the readiness check is missing.
IsReadyAlways == TRUE

\* Mutant of IsReady: only Unsupported counts as not ready.
IsReadyUnlessUnsupported == _readyState # Unsupported

\* The readiness check of connect() (lines 141-146).
IsReady == _readyState = Loadable \/ _readyState = Installed

\* Lines 139-151: from the call to the first await.
ConnectCall ==
    /\ Callable
    /\ LET tk == [IdleTask EXCEPT !.op = "connect"]
           p == ProviderExpr
       IN  IF ConnectGuard
           THEN /\ Run(IdleTask, TRUE, None,
                      [tk EXCEPT !.pc = "done", !.shortCircuit = TRUE])
                /\ _connecting' = ConnectFinally
           ELSE IF ~IsReady
           THEN /\ Run(IdleTask, TRUE, None,
                      ConnectCatch(tk, "WalletNotReadyError"))
                /\ _connecting' = ConnectFinally
           ELSE IF p = "ReferenceError"
           THEN /\ Run(IdleTask, TRUE, None,
                      ConnectCatch(tk, "ReferenceError"))
                /\ _connecting' = ConnectFinally
           ELSE /\ Run(IdleTask, TRUE, None,
                      [tk EXCEPT !.pc = "await_isConnected",
                                 !.provider = p,
                                 !.calls = Invoke(p, "isConnected")])
                /\ _connecting' = TRUE
    /\ UNCHANGED <<adapterVars, _wallet, session>>

\* Lines 151-155: isConnected() has answered.
ConnectIsConnectedResp(c) ==
    /\ c.op = "connect"
    /\ c.pc = "await_isConnected"
    /\ \E r \in IsConnectedOutcomes(c.provider) :
         LET tk == c
             p == tk.provider
         IN  IF r = "throw"
             THEN /\ Run(c, FALSE, r, ConnectCatch(tk, "ProviderError"))
                  /\ _connecting' = ConnectFinally
             ELSE IF r = "true"
             THEN /\ Run(c, FALSE, r,
                        [tk EXCEPT !.pc = "await_disconnect",
                                   !.calls = @ \cup Invoke(p, "disconnect")])
                  /\ UNCHANGED _connecting
             ELSE /\ Run(c, FALSE, r,
                        [tk EXCEPT !.pc = "await_connect",
                                   !.calls = @ \cup Invoke(p, "connect")])
                  /\ UNCHANGED _connecting
    /\ UNCHANGED <<adapterVars, _wallet, session>>

\* Mutant of ConnectDisconnectResp: a failure of the provider's
\* disconnect() is swallowed and connect() goes on.
ConnectDisconnectRespSwallows(c) ==
    /\ c.op = "connect"
    /\ c.pc = "await_disconnect"
    /\ \E r \in DisconnectOutcomes(c.provider) :
         /\ Run(c, FALSE, r,
                [c EXCEPT !.pc = "await_connect",
                          !.calls = @ \cup Invoke(c.provider, "connect")])
         /\ session' = IF r = "ok" THEN FALSE ELSE session
    /\ UNCHANGED <<adapterVars, _wallet, _connecting>>

\* Lines 153-155: the provider's disconnect() of the stale session has
\* answered.  The call is inside the try block with no handler of its own.
ConnectDisconnectResp(c) ==
    /\ c.op = "connect"
    /\ c.pc = "await_disconnect"
    /\ \E r \in DisconnectOutcomes(c.provider) :
         LET tk == c
             p == tk.provider
         IN  IF r = "throw"
             THEN /\ Run(c, FALSE, r, ConnectCatch(tk, "ProviderError"))
                  /\ _connecting' = ConnectFinally
                  /\ UNCHANGED session
             ELSE /\ Run(c, FALSE, r,
                        [tk EXCEPT !.pc = "await_connect",
                                   !.calls = @ \cup Invoke(p, "connect")])
                  /\ session' = IF r = "ok" THEN FALSE ELSE session
                  /\ UNCHANGED _connecting
    /\ UNCHANGED <<adapterVars, _wallet>>

\* Lines 155-161: the provider's connect() has answered.
ConnectConnectResp(c) ==
    /\ c.op = "connect"
    /\ c.pc = "await_connect"
    /\ \E r \in ConnectOutcomes(c.provider) :
         LET tk == c
             p == tk.provider
         IN  IF r = "throw"
             THEN /\ Run(c, FALSE, r, ConnectCatch(tk, "ProviderError"))
                  /\ _connecting' = ConnectFinally
                  /\ UNCHANGED session
             ELSE IF r # "response"
             THEN /\ Run(c, FALSE, r,
                        ConnectCatch(tk, "WalletNotConnectedError"))
                  /\ _connecting' = ConnectFinally
                  /\ UNCHANGED session
             ELSE /\ Run(c, FALSE, r,
                        [tk EXCEPT !.pc = "await_account",
                                   !.calls = @ \cup Invoke(p, "account")])
                  /\ session' = TRUE
                  /\ UNCHANGED _connecting
    /\ UNCHANGED <<adapterVars, _wallet>>

\* Lines 161-162: account() has answered.
ConnectAccountResp(c) ==
    /\ c.op = "connect"
    /\ c.pc = "await_account"
    /\ \E r \in AccountOutcomes(c.provider) :
         LET tk == c
             p == tk.provider
         IN  IF r = "throw"
             THEN /\ Run(c, FALSE, r, ConnectCatch(tk, "ProviderError"))
                  /\ _connecting' = ConnectFinally
             ELSE /\ Run(c, FALSE, r,
                        [tk EXCEPT !.pc = "await_publicKey",
                                   !.walletAccount = r,
                                   !.calls = @ \cup Invoke(p, "publicKey")])
                  /\ UNCHANGED _connecting
    /\ UNCHANGED <<adapterVars, _wallet, session>>

\* Mutant of WalletAfterConnect: address and public key are swapped.
WalletAfterConnectSwapped(walletAccount, publicKey) ==
    IF Truthy(walletAccount) THEN NewWallet(publicKey, walletAccount) ELSE _wallet

\* Lines 163-169: the record connect() leaves in this._wallet.
WalletAfterConnect(walletAccount, publicKey) ==
    IF Truthy(walletAccount) THEN NewWallet(walletAccount, publicKey) ELSE _wallet

\* Mutant of AddressOrEmpty: the payload is taken from the public key.
AddressOrEmptyFromPublicKey(w) ==
    IF w.present /\ Truthy(w.publicKey) THEN w.publicKey ELSE ""

\* Line 170: this._wallet?.address || ''
AddressOrEmpty(w) == IF w.present /\ Truthy(w.address) THEN w.address ELSE ""

\* Lines 162-176: publicKey() has answered; store the record, emit
\* `connect`, clear the flag, return.
ConnectPublicKeyResp(c) ==
    /\ c.op = "connect"
    /\ c.pc = "await_publicKey"
    /\ \E r \in PublicKeyOutcomes(c.provider) :
         LET tk == c
         IN  IF r = "throw"
             THEN /\ Run(c, FALSE, r, ConnectCatch(tk, "ProviderError"))
                  /\ UNCHANGED _wallet
             ELSE /\ _wallet' = WalletAfterConnect(tk.walletAccount, r)
                  /\ Run(c, FALSE, r,
                        [tk EXCEPT !.pc = "done",
                                   !.publicKey = r,
                                   !.events = Append(@,
                                       Event("connect", AddressOrEmpty(_wallet')))])
    /\ _connecting' = ConnectFinally
    /\ UNCHANGED <<adapterVars, session>>

(***************************************************************************)
(* disconnect() (lines 179-193)                                            *)
(***************************************************************************)

\* Lines 180-186 (or 180-192 when there is no record to clear).
DisconnectCall ==
    /\ Callable
    /\ LET tk == [IdleTask EXCEPT !.op = "disconnect"]
           p == ProviderExpr
       IN  IF p = "ReferenceError"
           THEN /\ Run(IdleTask, TRUE, None,
                      [tk EXCEPT !.pc = "done",
                                 !.failure = "ReferenceError",
                                 !.raised = "ReferenceError"])
                /\ UNCHANGED _wallet
           ELSE IF _wallet.present
           THEN /\ _wallet' = NullWallet
                /\ Run(IdleTask, TRUE, None,
                      [tk EXCEPT !.pc = "await_disconnect",
                                 !.provider = p,
                                 !.calls = Invoke(p, "disconnect")])
           ELSE /\ Run(IdleTask, TRUE, None,
                      [tk EXCEPT !.pc = "done",
                                 !.provider = p,
                                 !.events = <<Event("disconnect", None)>>])
                /\ UNCHANGED _wallet
    /\ UNCHANGED <<adapterVars, _connecting, session>>

\* Mutant of DisconnectResp: a provider failure is reported and re-raised,
\* and the `disconnect` event is skipped.
DisconnectRespRethrows(c) ==
    /\ c.op = "disconnect"
    /\ c.pc = "await_disconnect"
    /\ \E r \in DisconnectOutcomes(c.provider) :
         IF r = "throw"
         THEN /\ Run(c, FALSE, r,
                    [c EXCEPT !.pc = "done",
                              !.failure = "ProviderError",
                              !.raised = "ProviderError",
                              !.events = <<Event("error", "WalletDisconnectionError")>>])
              /\ UNCHANGED session
         ELSE /\ Run(c, FALSE, r,
                    [c EXCEPT !.pc = "done",
                              !.events = <<Event("disconnect", None)>>])
              /\ session' = IF r = "ok" THEN FALSE ELSE session
    /\ UNCHANGED <<adapterVars, _connecting, _wallet>>

\* Lines 186-192: the provider's disconnect() has answered.
DisconnectResp(c) ==
    /\ c.op = "disconnect"
    /\ c.pc = "await_disconnect"
    /\ \E r \in DisconnectOutcomes(c.provider) :
         LET tk == c
         IN  IF r = "throw"
             THEN /\ Run(c, FALSE, r,
                        [tk EXCEPT !.pc = "done",
                                   !.failure = "ProviderError",
                                   !.events = <<Event("error", "WalletDisconnectionError"),
                                                Event("disconnect", None)>>])
                  /\ UNCHANGED session
             ELSE /\ Run(c, FALSE, r,
                        [tk EXCEPT !.pc = "done",
                                   !.events = <<Event("disconnect", None)>>])
                  /\ session' = IF r = "ok" THEN FALSE ELSE session
    /\ UNCHANGED <<adapterVars, _connecting, _wallet>>

(***************************************************************************)
(* signTransaction() (lines 195-207)                                       *)
(***************************************************************************)

\* catch (lines 203-206): emit WalletSignTransactionError(error), rethrow.
SignTransactionCatch(tk, err) ==
    [tk EXCEPT !.pc = "done",
               !.events = Append(@, Event("error", "WalletSignTransactionError")),
               !.failure = err,
               !.raised = err]

\* What the provider's signTransaction() may answer.
SignTransactionOutcomes == {"bytes", "throw"}

\* The error lines 197-199, 214-216 and 231-233 throw before any provider
\* call, or None when the call goes on to the provider.
SignPrecondition(p) ==
    IF p = "ReferenceError" THEN "ReferenceError"
    ELSE IF ~_wallet.present \/ p # "provider" THEN "WalletNotConnectedError"
    ELSE None

\* Lines 196-200.
SignTransactionCall ==
    /\ Callable
    /\ LET tk == [IdleTask EXCEPT !.op = "signTransaction"]
           p == ProviderExpr
           err == SignPrecondition(p)
       IN  Run(IdleTask, TRUE, None,
                IF err # None
                THEN SignTransactionCatch(tk, err)
                ELSE [tk EXCEPT !.pc = "await_signTransaction",
                                !.provider = p,
                                !.calls = Invoke(p, "signTransaction")])
    /\ UNCHANGED <<adapterVars, _connecting, _wallet, session>>

\* Lines 200-206: the provider's signTransaction() has answered.
SignTransactionResp(c) ==
    /\ c.op = "signTransaction"
    /\ c.pc = "await_signTransaction"
    /\ \E r \in SignTransactionOutcomes :
         Run(c, FALSE, r,
             IF r = "throw"
             THEN SignTransactionCatch(c, "ProviderError")
             ELSE [c EXCEPT !.pc = "done"])
    /\ UNCHANGED <<adapterVars, _connecting, _wallet, session>>

(***************************************************************************)
(* signAndSubmitTransaction() (lines 209-227)                              *)
(***************************************************************************)

\* Whether `error.error.message` can be read from a thrown value: only a
\* provider error that carries a nested error object has error.error.
HasNestedMessage(err) == err = "ProviderNestedError"

\* catch (lines 223-226): building the event reads error.error.message; on
\* an error without a nested error object that read throws a TypeError out
\* of the handler, before emit() and before `throw error`.
SignAndSubmitCatch(tk, err) ==
    IF HasNestedMessage(err)
    THEN [tk EXCEPT !.pc = "done",
                    !.events = Append(@, Event("error", "WalletSignAndSubmitMessageError")),
                    !.failure = err,
                    !.raised = err]
    ELSE [tk EXCEPT !.pc = "done",
                    !.failure = err,
                    !.raised = "TypeError"]

\* What the provider's signAndSubmit() may answer: {success: true, ...},
\* {success: false}, nothing, a plain thrown error, or a thrown error
\* object with a nested error.message.
SignAndSubmitOutcomes == {"success", "failure", "nothing", "throw", "throwNested"}

\* Lines 213-217.
SignAndSubmitCall ==
    /\ Callable
    /\ LET tk == [IdleTask EXCEPT !.op = "signAndSubmitTransaction"]
           p == ProviderExpr
           err == SignPrecondition(p)
       IN  Run(IdleTask, TRUE, None,
                IF err # None
                THEN SignAndSubmitCatch(tk, err)
                ELSE [tk EXCEPT !.pc = "await_signAndSubmit",
                                !.provider = p,
                                !.calls = Invoke(p, "signAndSubmit")])
    /\ UNCHANGED <<adapterVars, _connecting, _wallet, session>>

\* Lines 217-226: the provider's signAndSubmit() has answered.
SignAndSubmitResp(c) ==
    /\ c.op = "signAndSubmitTransaction"
    /\ c.pc = "await_signAndSubmit"
    /\ \E r \in SignAndSubmitOutcomes :
         Run(c, FALSE, r,
             CASE r = "throw" -> SignAndSubmitCatch(c, "ProviderError")
               [] r = "throwNested" -> SignAndSubmitCatch(c, "ProviderNestedError")
               [] r \in {"failure", "nothing"} -> SignAndSubmitCatch(c, "NoResponseError")
               [] OTHER -> [c EXCEPT !.pc = "done"])
    /\ UNCHANGED <<adapterVars, _connecting, _wallet, session>>

(***************************************************************************)
(* signMessage() (lines 229-246)                                           *)
(***************************************************************************)

\* Mutant of SignMessageCatch: the handler also emits `disconnect`.
SignMessageCatchEmitsDisconnect(tk, err) ==
    [tk EXCEPT !.pc = "done",
               !.events = @ \o <<Event("error", "WalletSignMessageError"),
                                 Event("disconnect", None)>>,
               !.failure = err,
               !.raised = err]

\* catch (lines 241-245): emit WalletSignMessageError(error.message), rethrow.
SignMessageCatch(tk, err) ==
    [tk EXCEPT !.pc = "done",
               !.events = Append(@, Event("error", "WalletSignMessageError")),
               !.failure = err,
               !.raised = err]

\* What the provider's signMessage() may answer.
SignMessageOutcomes == {"success", "failure", "nothing", "throw"}

\* Lines 230-234.
SignMessageCall ==
    /\ Callable
    /\ LET tk == [IdleTask EXCEPT !.op = "signMessage"]
           p == ProviderExpr
           err == SignPrecondition(p)
       IN  Run(IdleTask, TRUE, None,
                IF err # None
                THEN SignMessageCatch(tk, err)
                ELSE [tk EXCEPT !.pc = "await_signMessage",
                                !.provider = p,
                                !.calls = Invoke(p, "signMessage")])
    /\ UNCHANGED <<adapterVars, _connecting, _wallet, session>>

\* Lines 234-245: the provider's signMessage() has answered.  With no
\* response, reading response.success throws a TypeError inside the try.
SignMessageResp(c) ==
    /\ c.op = "signMessage"
    /\ c.pc = "await_signMessage"
    /\ \E r \in SignMessageOutcomes :
         Run(c, FALSE, r,
             CASE r = "throw" -> SignMessageCatch(c, "ProviderError")
               [] r = "failure" -> SignMessageCatch(c, "SignMessageFailedError")
               [] r = "nothing" -> SignMessageCatch(c, "TypeError")
               [] OTHER -> [c EXCEPT !.pc = "done"])
    /\ UNCHANGED <<adapterVars, _connecting, _wallet, session>>

Next ==
    \/ Inject
    \/ Detect
    \/ ConnectCall
    \/ \E c \in InFlight : ConnectIsConnectedResp(c)
    \/ \E c \in InFlight : ConnectDisconnectResp(c)
    \/ \E c \in InFlight : ConnectConnectResp(c)
    \/ \E c \in InFlight : ConnectAccountResp(c)
    \/ \E c \in InFlight : ConnectPublicKeyResp(c)
    \/ DisconnectCall
    \/ \E c \in InFlight : DisconnectResp(c)
    \/ SignTransactionCall
    \/ \E c \in InFlight : SignTransactionResp(c)
    \/ SignAndSubmitCall
    \/ \E c \in InFlight : SignAndSubmitResp(c)
    \/ SignMessageCall
    \/ \E c \in InFlight : SignMessageResp(c)

Spec == Init /\ [][Next]_vars

\* The provider eventually answers (returns or throws on) every call made
\* to it: every suspended call is eventually resumed.
ProviderAnswers ==
    /\ WF_vars(\E c \in InFlight : ConnectIsConnectedResp(c))
    /\ WF_vars(\E c \in InFlight : ConnectDisconnectResp(c))
    /\ WF_vars(\E c \in InFlight : ConnectConnectResp(c))
    /\ WF_vars(\E c \in InFlight : ConnectAccountResp(c))
    /\ WF_vars(\E c \in InFlight : ConnectPublicKeyResp(c))
    /\ WF_vars(\E c \in InFlight : DisconnectResp(c))
    /\ WF_vars(\E c \in InFlight : SignTransactionResp(c))
    /\ WF_vars(\E c \in InFlight : SignAndSubmitResp(c))
    /\ WF_vars(\E c \in InFlight : SignMessageResp(c))

FairSpec == Spec /\ ProviderAnswers

(***************************************************************************)
(* Properties                                                              *)
(***************************************************************************)

\* Number of events of one type in an event log.
CountEvents(evs, type) == Cardinality({i \in 1..Len(evs) : evs[i].type = type})

\* The connect() calls past the entry guard that have not returned.
ConnectCalls == {c \in InFlight : c.op = "connect"}

ConnectsInFlight == BagCardinality([c \in ConnectCalls |-> tasks[c]])

\* The step that led to this state was a call of `op` that returned.
Returned(op) == last.returned /\ last.op = op /\ done.op = op

\* C1: a connect() called while an earlier connect() is in flight with the
\* connecting flag set returns in the same step, having invoked no provider
\* method, emitted no event and raised nothing.
C1_SecondConnectShortCircuits ==
    [][(/\ last'.called
        /\ last'.op = "connect"
        /\ _connecting
        /\ ConnectCalls # {})
       => (/\ last'.returned
           /\ done'.op = "connect"
           /\ done'.shortCircuit
           /\ done'.calls = {}
           /\ done'.events = <<>>
           /\ done'.raised = None
           /\ tasks' = tasks)]_vars

\* C1 witness: a connect() has just short-circuited on the connecting flag
\* (no record is present) while another connect() is suspended at the provider.
C1_Witness ==
    /\ last.called
    /\ Returned("connect")
    /\ done.shortCircuit
    /\ ~connected
    /\ \E c \in ConnectCalls : c.pc = "await_connect"

\* C2: at most one connect() call is past the entry guard and in flight.
C2_AtMostOneConnectInFlight == ConnectsInFlight <= 1

\* C3: connecting is true exactly while some connect() call is past the
\* entry guard and has not returned.
C3_ConnectingIffConnectActive ==
    /\ ConnectsInFlight > 0 => connecting
    /\ ConnectsInFlight = 0 => ~connecting

\* C4: in the state in which a disconnect() call returns, connected is
\* false and the call has emitted exactly one `disconnect` event.
C4_DisconnectEndsDisconnected ==
    Returned("disconnect") =>
        /\ ~connected
        /\ CountEvents(done.events, "disconnect") = 1

\* A connect() call has just completed without raising and without
\* short-circuiting.
ConnectCompleted ==
    /\ Returned("connect")
    /\ done.raised = None
    /\ ~done.shortCircuit

\* C5 as stated: whenever a connect() call completes without raising and
\* without short-circuiting, connected is true and publicAccount holds the
\* address and public key the provider reported, with authKey null.
C5_ConnectedAfterConnect ==
    ConnectCompleted =>
        /\ connected
        /\ publicAccount.address = done.walletAccount
        /\ publicAccount.publicKey = done.publicKey
        /\ publicAccount.authKey = Null

\* C5 amended: whenever a connect() call completes without raising and
\* without short-circuiting and account() answered a non-empty address,
\* connected is true, publicAccount.address is that address,
\* publicAccount.publicKey is the publicKey() answer (null when that answer
\* is empty) and authKey is null.
C5_ConnectedAfterConnectWithAddress ==
    (ConnectCompleted /\ Truthy(done.walletAccount)) =>
        /\ connected
        /\ publicAccount.address = done.walletAccount
        /\ publicAccount.publicKey = OrNull(done.publicKey)
        /\ publicAccount.authKey = Null

\* C5 witness: a connect() has just completed with a non-empty address and
\* a non-empty public key.
C5_Witness ==
    /\ ConnectCompleted
    /\ done.walletAccount = "0xC"
    /\ done.publicKey = "0xB"
    /\ publicAccount.address = "0xC"

\* C6: the ConnectionRecord is present if and only if connected is true.
C6_RecordPresentIffConnected == _wallet.present <=> connected

\* C6 witness: a record is present and connected is true in the state in
\* which a sign operation has returned.
C6_Witness ==
    /\ _wallet.present
    /\ connected
    /\ last.returned
    /\ last.op \in {"signTransaction", "signAndSubmitTransaction", "signMessage"}

\* C7: connect() called while ReadyState is NotDetected or Unsupported
\* returns in the same step raising WalletNotReady, having invoked no
\* provider method; the record is unchanged and absent and connecting is
\* false afterwards.
C7_ConnectNotReady ==
    [][(/\ last'.called
        /\ last'.op = "connect"
        /\ _readyState \in {NotDetected, Unsupported})
       => (/\ last'.returned
           /\ done'.op = "connect"
           /\ done'.raised = "WalletNotReadyError"
           /\ done'.calls = {}
           /\ tasks' = tasks
           /\ _wallet' = _wallet
           /\ ~_wallet'.present
           /\ ~connecting')]_vars

\* C7 witness: a connect() has just failed with WalletNotReady while the
\* provider was not detected.
C7_Witness ==
    /\ last.called
    /\ Returned("connect")
    /\ done.raised = "WalletNotReadyError"
    /\ _readyState = NotDetected
    /\ ~_wallet.present

\* The step resumed a connect() whose provider disconnect() of a stale
\* session threw.
StaleDisconnectFailed ==
    /\ last.op = "connect"
    /\ last.at = "await_disconnect"
    /\ last.answer = "throw"

\* C8 as stated: when the provider's disconnect() fails during connect(),
\* the failure is swallowed and connect() goes on to invoke the provider's
\* connect().
C8_StaleDisconnectFailureSwallowed ==
    StaleDisconnectFailed =>
        /\ ~last.returned
        /\ \E c \in ConnectCalls : c.pc = "await_connect" /\ "connect" \in c.calls

\* C8 amended: when the provider's disconnect() fails during connect(),
\* connect() fails with that error: it returns without invoking the
\* provider's connect(), emits the generic `error` event, raises the
\* disconnect failure and clears the connecting flag.
C8_StaleDisconnectFailurePropagates ==
    StaleDisconnectFailed =>
        /\ Returned("connect")
        /\ done.raised = "ProviderError"
        /\ done.calls = {"isConnected", "disconnect"}
        /\ done.events = <<Event("error", "UserRejectedConnection")>>
        /\ ~connecting

\* C8 witness: a connect() has just failed on the provider's disconnect().
C8_Witness ==
    /\ StaleDisconnectFailed
    /\ Returned("connect")
    /\ done.raised = "ProviderError"

\* C9: a failing call of connect, signTransaction, signAndSubmitTransaction
\* or signMessage emits exactly one `error` event and raises the original
\* error; disconnect raises nothing and reports a provider failure through
\* an `error` event.
C9_ErrorPropagation ==
    last.returned =>
        /\ (done.op # "disconnect" /\ done.failure # None) =>
              /\ CountEvents(done.events, "error") = 1
              /\ done.raised = done.failure
        /\ done.op = "disconnect" =>
              /\ done.raised = None
              /\ done.failure # None => CountEvents(done.events, "error") = 1

\* C10: signAndSubmitTransaction(), when the provider answers
\* {success: false} or nothing, fails: it emits one `error` event of the
\* sign-and-submit kind, raises the original failure, and leaves the
\* ConnectionRecord unchanged.
C10_SignAndSubmitFailure ==
    [][(/\ last'.op = "signAndSubmitTransaction"
        /\ last'.at = "await_signAndSubmit"
        /\ last'.answer \in {"failure", "nothing"})
       => (/\ last'.returned
           /\ done'.op = "signAndSubmitTransaction"
           /\ done'.failure = "NoResponseError"
           /\ done'.raised = done'.failure
           /\ done'.events = <<Event("error", "WalletSignAndSubmitMessageError")>>
           /\ _wallet' = _wallet)]_vars

SignOps == {"signTransaction", "signAndSubmitTransaction", "signMessage"}

\* C11: a sign operation called with no ConnectionRecord or with no
\* provider returns in the same step raising WalletNotConnected, having
\* invoked no provider method.
C11_SignNotConnected ==
    [][(/\ last'.called
        /\ last'.op \in SignOps
        /\ (~_wallet.present \/ ProviderExpr # "provider"))
       => (/\ last'.returned
           /\ done'.op = last'.op
           /\ done'.raised = "WalletNotConnectedError"
           /\ done'.calls = {}
           /\ tasks' = tasks)]_vars

\* C12: ReadyState starts Unsupported or NotDetected; Unsupported and
\* Installed never change; NotDetected changes only to Installed, and that
\* change emits one `readyStateChange` event.
C12_ReadyStateOneWay ==
    /\ _readyState \in {Unsupported, NotDetected}
    /\ [][/\ _readyState = Unsupported => _readyState' = Unsupported
          /\ _readyState = Installed => _readyState' = Installed
          /\ _readyState = NotDetected => _readyState' \in {NotDetected, Installed}
          /\ _readyState' # _readyState =>
                readyStateChanges' = readyStateChanges + 1
          /\ _readyState' = _readyState =>
                readyStateChanges' = readyStateChanges]_vars

\* C12 witness: the provider has been detected, the state is Installed and
\* adapter operations have run since.
C12_Witness ==
    /\ _readyState = Installed
    /\ readyStateChanges = 1
    /\ Returned("disconnect")
    /\ done.calls = {"disconnect"}

\* C13: in the state in which a failing connect() call returns, connected
\* and connecting are false, the call has emitted the generic `error`
\* event and raises the original error.
C13_ConnectFailureEndsDisconnected ==
    (Returned("connect") /\ done.failure # None) =>
        /\ ~connected
        /\ ~connecting
        /\ done.events = <<Event("error", "UserRejectedConnection")>>
        /\ done.raised = done.failure

\* C14: disconnect() with a record clears it in the step that invokes the
\* provider's disconnect(), so the record is absent when that call starts
\* pending; when the provider's disconnect() throws, the call returns
\* having emitted a disconnection `error` event and then `disconnect`,
\* raises nothing, and leaves the record as it was.
C14_DisconnectClearsFirstAndCatches ==
    [][/\ (/\ last'.called
           /\ last'.op = "disconnect"
           /\ _wallet.present)
          => (/\ ~_wallet'.present
              /\ ~last'.returned
              /\ \E c \in BagToSet(tasks') :
                    /\ c.op = "disconnect"
                    /\ c.pc = "await_disconnect"
                    /\ c.calls = {"disconnect"}
                    /\ c.events = <<>>)
       /\ (/\ last'.op = "disconnect"
           /\ last'.at = "await_disconnect"
           /\ last'.answer = "throw")
          => (/\ last'.returned
              /\ done'.op = "disconnect"
              /\ done'.events = <<Event("error", "WalletDisconnectionError"),
                                  Event("disconnect", None)>>
              /\ done'.raised = None
              /\ _wallet' = _wallet)]_vars

\* C14 witness: a disconnect() that cleared a record has just returned
\* after the provider's disconnect() threw, and no record is present.
C14_Witness ==
    /\ Returned("disconnect")
    /\ last.answer = "throw"
    /\ done.failure = "ProviderError"
    /\ done.raised = None
    /\ ~_wallet.present

\* C15: a connect() that neither short-circuits nor fails has emitted, when
\* it returns, exactly one `connect` event whose payload is the address of
\* the record then present (the empty string when absent), after its
\* provider calls; a non-empty payload comes with connected true; a
\* short-circuited or failed call, and a call still in flight, has emitted
\* no `connect` event.
C15_ConnectEvent ==
    /\ Returned("connect") =>
          IF done.raised = None /\ ~done.shortCircuit
          THEN /\ Len(done.events) = 1
               /\ done.events[1].type = "connect"
               /\ done.events[1].payload =
                     (IF _wallet.present THEN _wallet.address ELSE "")
               /\ done.events[1].payload # "" => connected
               /\ {"isConnected", "connect", "account", "publicKey"}
                     \subseteq done.calls
          ELSE CountEvents(done.events, "connect") = 0
    /\ \A c \in InFlight : CountEvents(c.events, "connect") = 0

\* C15 witness: a connect() has just completed and emitted `connect` with
\* the address of the stored record.
C15_Witness ==
    /\ ConnectCompleted
    /\ done.events = <<Event("connect", "0xA")>>
    /\ _wallet.address = "0xA"

\* C16: disconnect() called with no record returns in the same step,
\* having invoked no provider method and changed no adapter state, and has
\* emitted exactly one `disconnect` event and no `error` event.
C16_DisconnectWithoutRecord ==
    [][(/\ last'.called
        /\ last'.op = "disconnect"
        /\ ~_wallet.present)
       => (/\ last'.returned
           /\ done'.op = "disconnect"
           /\ done'.calls = {}
           /\ done'.events = <<Event("disconnect", None)>>
           /\ _wallet' = _wallet
           /\ _connecting' = _connecting
           /\ _readyState' = _readyState)]_vars

Quiescent == tasks = EmptyBag

\* C18: with no adapter operation in flight, connected is true only if the
\* provider's session is active.
C18_AgreesWithProviderAtQuiescence ==
    (Quiescent /\ connected) => session

\* C19: connected or connecting is true only if ReadyState is Installed or
\* Loadable; while ReadyState is Unsupported or NotDetected there is no
\* record and no connect() has invoked a provider method.
C19_ConnectedOnlyWhenReady ==
    /\ (connected \/ connecting) => _readyState \in {Installed, Loadable}
    /\ _readyState \in {Unsupported, NotDetected} =>
          /\ ~_wallet.present
          /\ \A c \in ConnectCalls : c.calls = {}
          /\ done.op = "connect" => done.calls = {}

\* C19 witness: a connect() that went to the provider has just returned
\* and a record is present with ReadyState Installed.
C19_Witness ==
    /\ connected
    /\ _readyState = Installed
    /\ Returned("connect")
    /\ done.calls # {}

\* C20: no step of a sign operation changes the record, the connecting
\* flag or ReadyState or emits `readyStateChange`, and a sign operation
\* emits nothing but `error` events.
C20_SignLeavesStateAlone ==
    /\ [][last'.op \in SignOps
          => (/\ _wallet' = _wallet
              /\ _connecting' = _connecting
              /\ _readyState' = _readyState
              /\ readyStateChanges' = readyStateChanges)]_vars
    /\ [](\A c \in InFlight \cup {done} :
             c.op \in SignOps =>
                \A i \in 1..Len(c.events) : c.events[i].type = "error")

\* C20 witness: a signMessage() that reached the provider has just failed
\* while a record is present.
C20_Witness ==
    /\ Returned("signMessage")
    /\ done.calls # {}
    /\ done.raised # None
    /\ connected

====
